---- MODULE Spec2Model ----
(***************************************************************************)
(* Model of cloud-image-launcher.py: one command-line run of               *)
(* CloudImgLauncher().main() after another against one libvirt hypervisor, *)
(* its image directory and the DHCP lease table of the default network.    *)
(*                                                                         *)
(* The hypervisor, the external commands and the lease table are the       *)
(* environment: an external command exits zero or non-zero, the domain XML *)
(* lists any interfaces, each DHCPLeases() call returns any lease list.    *)
(***************************************************************************)
EXTENDS Integers, Sequences, FiniteSets

(* ------------------------------ bounds -------------------------------- *)

\* longest lease list one DHCPLeases() snapshot returns
MaxLeases == 2

(* ------------------------ constants of the code ----------------------- *)

max_attempt == 45

\* keys of distros/distros.yaml
images == {"fedora31"}

Hosts == {"vm1", "vm2"}
Distros == {"fedora31", "unknown"}
Commands == {"create", "destroy", "fetch"}
MACs == {"52:54:00:00:00:01", "52:54:00:00:00:02"}
IPs == {"192.168.122.50", "192.168.122.51"}

None == "None"

SeqsUpTo(S, n) == UNION {[1..k -> S] : k \in 0..n}

\* what get_instance_macs can read from a domain's XML: no interface, or the
\* interfaces' MAC addresses in the order of their definition, each its own
MacLists == {ms \in SeqsUpTo(MACs, Cardinality(MACs)) :
                \A i, j \in 1..Len(ms) : ms[i] = ms[j] => i = j}

\* what one DHCPLeases() call can return
LeaseRecords == [mac : MACs, ipaddr : IPs]
LeaseTables == SeqsUpTo(LeaseRecords, MaxLeases)

Range(s) == {s[i] : i \in 1..Len(s)}

VARIABLES
    defined,    \* hypervisor: the names of the defined domains
    active,     \* hypervisor: the running domains
    disks,      \* image directory: <images_path>/<hostname>
    isos,       \* image directory: <images_path>/<hostname>.iso
    base,       \* image directory: the distributions whose base image is there
    conn,       \* self.conn: "closed" or "open"
    pc,         \* where the current run is
    cmd,        \* self.args.command
    host,       \* self.args.hostname
    distro,     \* self.args.distribution
    calls,      \* hypervisor calls and external commands of this run, in order
    log,        \* the messages this run logged at level INFO, in order
    macs,       \* get_dom_ip: macs
    mac,        \* get_ip_address_from_dhcp_leases: mac
    attempt,    \* get_ip_address_from_dhcp_leases: attempt
    ipaddr,     \* get_ip_address_from_dhcp_leases: ipaddr
    polls,      \* number of net.DHCPLeases() calls of this run
    sleeps,     \* number of time.sleep(1) calls of this run
    firstSeen,  \* the first poll whose snapshot held a lease of macs[0], or 0
    leaseIp,    \* the address of the first lease of macs[0] in that snapshot
    laterOnly,  \* some snapshot held a lease of a later MAC and none of macs[0]
    exit_code,  \* the process's exit status, -1 while it runs
    absent,     \* whether host was undefined when this run started
    prev        \* the run before this one

vars == <<defined, active, disks, isos, base, conn, pc, cmd, host, distro, calls, log,
          macs, mac, attempt, ipaddr, polls, sleeps, firstSeen, leaseIp,
          laterOnly, exit_code, absent, prev>>

hyper == <<defined, active>>
storage == <<disks, isos, base>>
args == <<cmd, host, distro, absent, prev>>
resolver == <<macs, mac, attempt, ipaddr, polls, sleeps, firstSeen, leaseIp,
              laterOnly>>

Call(op, ok) == [op |-> op, ok |-> ok]
Ops(cs) == {cs[i].op : i \in 1..Len(cs)}
Logged(m) == m \in Range(log)

(* ----------------------------- outcomes ------------------------------- *)

\* The run's outcome in the words of the design, read off what the run
\* logged and how the process ended (the methods themselves return nothing).
Outcome ==
    IF exit_code = -1 THEN "running"
    ELSE IF exit_code # 0 THEN "failed"
    ELSE IF Logged("already_exists") THEN "AlreadyExists"
    ELSE IF Logged("iface_up") THEN "created_with_address"
    ELSE IF Logged("lease_hint") THEN "created_without_address"
    ELSE IF Logged("not_exists") THEN "AlreadyAbsent"
    ELSE IF Logged("destroyed") THEN "destroyed"
    ELSE IF Logged("image_available") THEN "fetched"
    ELSE "none"

NoRun == [cmd |-> None, host |-> None, absent |-> FALSE, outcome |-> "none"]

(* --------------------------- the code's tests -------------------------- *)

\* is_instance with the two results exchanged
is_instance_inverted(h) == h \notin defined

\* is_instance that takes every lookup for a failed one
is_instance_never(h) == FALSE

\* is_instance that takes every lookup for a successful one
is_instance_always(h) == TRUE

\* is_instance: lookupByName succeeds iff the domain is defined
is_instance(h) == h \in defined

\* _create_image: self.images[self.args.distribution] raises KeyError
KnownDistribution(d) == d \in images

\* "if macs is None" in the place of "if not macs"
NoMacs_is_None(ms) == FALSE

\* get_ip_address_from_dhcp_leases: if not macs
NoMacs(ms) == ms = <<>>

\* the MAC of the interface defined last
LastMac(ms) == ms[Len(ms)]

\* get_ip_address_from_dhcp_leases: mac = macs[0]
FirstMac(ms) == ms[1]

\* the list comprehension that lists the matching leases last to first
Matching_last_first(snap, m) ==
    LET hit(l) == l.mac = m
        hits == SelectSeq(snap, hit)
    IN  [i \in 1..Len(hits) |-> hits[Len(hits) + 1 - i].ipaddr]

\* the list comprehension without its filter on the MAC
Matching_any_mac(snap, m) == [i \in 1..Len(snap) |-> snap[i].ipaddr]

\* the list comprehension over net.DHCPLeases(): the addresses of the leases
\* of mac m, in the order of the lease list
Matching(snap, m) ==
    LET hit(l) == l.mac = m
        hits == SelectSeq(snap, hit)
    IN  [i \in 1..Len(hits) |-> hits[i].ipaddr]

\* the test one attempt early
AttemptsExhausted_early(a) == a + 1 = max_attempt

\* if attempt == max_attempt
AttemptsExhausted(a) == a = max_attempt

\* the two branches exchanged
Report_exchanged(ip) == IF ip = None THEN "iface_up" ELSE "lease_hint"

\* _create_instance: if not ipaddr ... else ...
Report(ip) == IF ip = None THEN "lease_hint" ELSE "iface_up"

\* a destroy that never sees the domain running
isActive_never(h) == FALSE

\* destroy: if dom.isActive()
isActive(h) == h \in active

(* ------------------------------ the run -------------------------------- *)

Init ==
    /\ defined \in SUBSET Hosts
    /\ active \in SUBSET defined
    /\ disks = defined
    /\ isos = defined
    /\ base \in SUBSET images
    /\ conn = "closed"
    /\ pc = "idle"
    /\ cmd = None
    /\ host = None
    /\ distro = None
    /\ calls = <<>>
    /\ log = <<>>
    /\ macs = <<>>
    /\ mac = None
    /\ attempt = 0
    /\ ipaddr = None
    /\ polls = 0
    /\ sleeps = 0
    /\ firstSeen = 0
    /\ leaseIp = None
    /\ laterOnly = FALSE
    /\ exit_code = -1
    /\ absent = FALSE
    /\ prev = NoRun

\* An uncaught exception: the traceback ends the process with status 1 and
\* main never reaches self.conn.close().
Crash ==
    /\ pc' = "done"
    /\ exit_code' = 1
    /\ UNCHANGED conn

\* The command's method returns: main closes the connection and the process
\* ends with status 0.
Return ==
    /\ pc' = "done"
    /\ exit_code' = 0
    /\ conn' = "closed"

\* CloudImgLauncher().main() up to the dispatch: __init__ opens the
\* connection, parse_arguments reads the command line.
Start(c, h, d) ==
    /\ pc \in {"idle", "done"}
    /\ prev' = IF pc = "done"
               THEN [cmd |-> cmd, host |-> host, absent |-> absent,
                     outcome |-> Outcome]
               ELSE prev
    /\ conn' = "open"
    /\ cmd' = c
    /\ host' = h
    /\ distro' = d
    /\ absent' = (h \notin defined)
    /\ calls' = <<>>
    /\ log' = <<>>
    /\ macs' = <<>>
    /\ mac' = None
    /\ attempt' = 0
    /\ ipaddr' = None
    /\ polls' = 0
    /\ sleeps' = 0
    /\ firstSeen' = 0
    /\ leaseIp' = None
    /\ laterOnly' = FALSE
    /\ exit_code' = -1
    /\ pc' = c
    /\ UNCHANGED <<hyper, storage>>

\* create, up to the call of _create_image
create ==
    /\ pc = "create"
    /\ calls' = Append(calls, Call("lookupByName", host \in defined))
    /\ IF is_instance(host)
       THEN /\ log' = log \o <<"check", "already_exists">>
            /\ Return
       ELSE /\ log' = log \o <<"check", "creating">>
            /\ pc' = "_create_image"
            /\ UNCHANGED <<conn, exit_code>>
    /\ UNCHANGED <<hyper, storage, args, resolver>>

\* _create_image: the return value of execute is dropped
_create_image ==
    /\ pc = "_create_image"
    /\ IF ~KnownDistribution(distro)
       THEN /\ Crash
            /\ UNCHANGED <<disks, calls, log>>
       ELSE /\ \E ok \in BOOLEAN :
                 /\ calls' = Append(calls, Call("qemu-img", ok))
                 /\ disks' = IF ok THEN disks \cup {host} ELSE disks
            /\ log' = Append(log, "disk_created")
            /\ pc' = "_create_cloud_init_config"
            /\ UNCHANGED <<conn, exit_code>>
    /\ UNCHANGED <<hyper, isos, base, args, resolver>>

\* _create_cloud_init_config: rendering reads the public key (get_key) and
\* raises when it cannot; the return value of execute is dropped
_create_cloud_init_config ==
    /\ pc = "_create_cloud_init_config"
    /\ \E readable \in BOOLEAN :
         IF ~readable
         THEN /\ Crash
              /\ log' = Append(log, "cloud_init")
              /\ UNCHANGED <<isos, calls>>
         ELSE /\ \E ok \in BOOLEAN :
                   /\ calls' = Append(calls, Call("genisoimage", ok))
                   /\ isos' = IF ok THEN isos \cup {host} ELSE isos
              /\ log' = log \o <<"cloud_init", "iso_created">>
              /\ pc' = "_create_instance"
              /\ UNCHANGED <<conn, exit_code>>
    /\ UNCHANGED <<hyper, disks, base, args, resolver>>

\* virt-install can define and start the domain when the name is free and
\* both of its disks are there
CanInstall(h) == h \notin defined /\ h \in disks /\ h \in isos

\* _create_instance, the execute of virt-install: execute logs a failure at
\* level DEBUG and returns None, and the caller goes on
_create_instance ==
    /\ pc = "_create_instance"
    /\ \E ok \in BOOLEAN :
         /\ ok => CanInstall(host)
         /\ calls' = Append(calls, Call("virt-install", ok))
         /\ defined' = IF ok THEN defined \cup {host} ELSE defined
         /\ active' = IF ok THEN active \cup {host} ELSE active
    /\ pc' = "get_dom_ip"
    /\ UNCHANGED <<storage, conn, args, log, resolver, exit_code>>

\* get_dom_ip: get_instance_macs, then get_ip_address_from_dhcp_leases up to
\* its loop; on the return without a MAC, the rest of _create_instance
get_dom_ip ==
    /\ pc = "get_dom_ip"
    /\ calls' = Append(calls, Call("lookupByName", host \in defined))
    /\ IF host \notin defined
       THEN \* lookupByName raises libvirtError
            /\ Crash
            /\ UNCHANGED <<log, macs, mac>>
       ELSE \E ms \in MacLists :
            /\ macs' = ms
            /\ IF NoMacs(ms)
               THEN /\ log' = log \o <<"no_mac", Report(None)>>
                    /\ Return
                    /\ UNCHANGED mac
               ELSE IF Len(ms) = 0
               THEN \* macs[0] raises IndexError
                    /\ Crash
                    /\ UNCHANGED <<log, mac>>
               ELSE /\ mac' = FirstMac(ms)
                    /\ log' = Append(log, "waiting")
                    /\ pc' = "poll"
                    /\ UNCHANGED <<conn, exit_code>>
    /\ UNCHANGED <<hyper, storage, args, attempt, ipaddr, polls, sleeps,
                   firstSeen, leaseIp, laterOnly>>

\* one turn of the while loop of get_ip_address_from_dhcp_leases; on leaving
\* the loop, the return and the rest of _create_instance
poll ==
    /\ pc = "poll"
    /\ \E snap \in LeaseTables :
         LET found == Matching(snap, mac)
             holds == {i \in 1..Len(snap) : snap[i].mac = macs[1]}
             first == CHOOSE i \in holds : \A j \in holds : i <= j
         IN
         /\ polls' = polls + 1
         /\ IF firstSeen = 0 /\ holds # {}
            THEN /\ firstSeen' = polls + 1
                 /\ leaseIp' = snap[first].ipaddr
            ELSE UNCHANGED <<firstSeen, leaseIp>>
         /\ laterOnly' = (\/ laterOnly
                          \/ /\ holds = {}
                             /\ \E i \in 1..Len(snap), k \in 2..Len(macs) :
                                   snap[i].mac = macs[k])
         /\ IF found = <<>>
            THEN IF AttemptsExhausted(attempt)
                 THEN /\ log' = log \o <<"timeout", Report(ipaddr)>>
                      /\ Return
                      /\ UNCHANGED <<attempt, sleeps, ipaddr>>
                 ELSE /\ sleeps' = sleeps + 1
                      /\ attempt' = attempt + 1
                      /\ UNCHANGED <<pc, log, ipaddr, conn, exit_code>>
            ELSE /\ ipaddr' = found[1]
                 /\ log' = Append(log, Report(found[1]))
                 /\ Return
                 /\ UNCHANGED <<attempt, sleeps>>
    /\ UNCHANGED <<hyper, storage, args, calls, macs, mac>>

\* destroy: the return value of execute is dropped
destroy ==
    /\ pc = "destroy"
    /\ IF ~is_instance(host)
       THEN /\ calls' = Append(calls, Call("lookupByName", host \in defined))
            /\ log' = log \o <<"check", "not_exists">>
            /\ Return
            /\ UNCHANGED <<hyper, storage>>
       ELSE IF host \notin defined
       THEN \* the second lookupByName raises libvirtError
            /\ calls' = calls \o <<Call("lookupByName", FALSE),
                                   Call("lookupByName", FALSE)>>
            /\ log' = log \o <<"check", "destroying">>
            /\ Crash
            /\ UNCHANGED <<hyper, storage>>
       ELSE \E ok \in BOOLEAN :
            LET stop == IF isActive(host) THEN <<Call("dom.destroy", TRUE)>>
                        ELSE <<>>
            IN
            /\ calls' = calls \o <<Call("lookupByName", TRUE),
                                   Call("lookupByName", TRUE)>>
                              \o stop \o <<Call("undefine", ok)>>
            /\ active' = IF isActive(host) THEN active \ {host} ELSE active
            \* --snapshots-metadata --remove-all-storage
            /\ defined' = IF ok THEN defined \ {host} ELSE defined
            /\ disks' = IF ok THEN disks \ {host} ELSE disks
            /\ isos' = IF ok THEN isos \ {host} ELSE isos
            /\ log' = log \o <<"check", "destroying", "destroyed">>
            /\ Return
    /\ UNCHANGED <<base, args, resolver>>

\* a fetch that downloads whether or not the file is there
FileMissing_always(d) == TRUE

\* fetch: if not Path(base_image).is_file()
FileMissing(d) == d \notin base

\* a fetch that takes every identifier for one of the catalog
InCatalog_always(d) == TRUE

\* fetch: the negation of "distribution not in self.images"
InCatalog(d) == d \in images

\* fetch: sys.exit(1) ends the process before main reaches self.conn.close()
Exit1 ==
    /\ pc' = "done"
    /\ exit_code' = 1
    /\ UNCHANGED conn

\* fetch: the return value of execute is dropped
fetch ==
    /\ pc = "fetch"
    /\ IF ~InCatalog(distro)
       THEN /\ log' = Append(log, "available_distributions")
            /\ Exit1
            /\ UNCHANGED <<calls, base>>
       ELSE IF distro \notin images
       THEN \* self.images[distribution] raises KeyError
            /\ Crash
            /\ UNCHANGED <<log, calls, base>>
       ELSE /\ IF FileMissing(distro)
               THEN \E ok \in BOOLEAN :
                    /\ calls' = calls \o <<Call("is_file", distro \in base),
                                           Call("curl", ok)>>
                    /\ base' = IF ok THEN base \cup {distro} ELSE base
                    /\ log' = log \o <<"fetching", "image_available">>
               ELSE /\ calls' = Append(calls, Call("is_file", distro \in base))
                    /\ log' = Append(log, "image_available")
                    /\ UNCHANGED base
            /\ Return
    /\ UNCHANGED <<hyper, disks, isos, args, resolver>>

Next ==
    \/ \E c \in Commands \ {"fetch"}, h \in Hosts, d \in Distros : Start(c, h, d)
    \/ \E d \in Distros : Start("fetch", None, d)
    \/ create
    \/ _create_image
    \/ _create_cloud_init_config
    \/ _create_instance
    \/ get_dom_ip
    \/ poll
    \/ destroy
    \/ fetch

Spec == Init /\ [][Next]_vars

(* ------------------- lookups that fail for other reasons --------------- *)

\* what lookupByName can raise besides "no domain of that name": another
\* libvirtError (the connection broke, access denied), or any other exception
LookupFailures == {"libvirtError", "Exception"}

LookupFailed(err) ==
    Call(IF err = "libvirtError" THEN "lookupByName/libvirtError"
         ELSE "lookupByName/Exception", FALSE)

\* is_instance when the lookup raised err: "except libvirt.libvirtError" takes
\* every libvirtError for a missing domain; any other exception is logged and
\* the process ends by an exception
is_instance_on(err) == IF err = "libvirtError" THEN "False" ELSE "raise"

\* The failures are injected into the first run of a behaviour, which starts
\* from any state of the hypervisor; the runs after it meet none.
FaultyRun == prev = NoRun

\* create, when the lookup of is_instance fails
create_lookup_fails ==
    /\ pc = "create"
    /\ FaultyRun
    /\ \E err \in LookupFailures :
         /\ calls' = Append(calls, LookupFailed(err))
         /\ IF is_instance_on(err) = "raise"
            THEN /\ log' = log \o <<"check", "unexpected_error">>
                 /\ Crash
            ELSE /\ log' = log \o <<"check", "creating">>
                 /\ pc' = "_create_image"
                 /\ UNCHANGED <<conn, exit_code>>
    /\ UNCHANGED <<hyper, storage, args, resolver>>

\* destroy, when the lookup of is_instance fails
destroy_lookup_fails ==
    /\ pc = "destroy"
    /\ FaultyRun
    /\ \E err \in LookupFailures :
         /\ calls' = Append(calls, LookupFailed(err))
         /\ IF is_instance_on(err) = "raise"
            THEN /\ log' = log \o <<"check", "unexpected_error">>
                 /\ Crash
            ELSE /\ log' = log \o <<"check", "not_exists">>
                 /\ Return
    /\ UNCHANGED <<hyper, storage, args, resolver>>

NextFaults ==
    \/ Next
    \/ create_lookup_fails
    \/ destroy_lookup_fails

SpecFaults == Init /\ [][NextFaults]_vars

(* ------------------------------- types --------------------------------- *)

TypeOK ==
    /\ defined \subseteq Hosts
    /\ active \subseteq defined
    /\ disks \subseteq Hosts
    /\ isos \subseteq Hosts
    /\ base \subseteq images
    /\ conn \in {"closed", "open"}
    /\ cmd \in Commands \cup {None}
    /\ host \in Hosts \cup {None}
    /\ macs \in MacLists
    /\ attempt \in 0..max_attempt
    /\ polls \in 0..(max_attempt + 1)
    /\ sleeps \in 0..max_attempt
    /\ ipaddr \in IPs \cup {None}
    /\ exit_code \in {-1, 0, 1}

(* ------------------------------- claims -------------------------------- *)

Has(op) == op \in Ops(calls)
Failed(op) == \E i \in 1..Len(calls) : calls[i].op = op /\ ~calls[i].ok
Succeeded(op) == \E i \in 1..Len(calls) : calls[i].op = op /\ calls[i].ok
Mutations == {"dom.destroy", "undefine"}
Created == {"created_with_address", "created_without_address"}
Finished(c) == pc = "done" /\ cmd = c

\* C1: a create of a hostname whose domain is defined is one step that
\* reports "already exists" and succeeds, whose only call is the existence
\* lookup (no qemu-img, genisoimage, virt-install, no lease poll), and that
\* leaves the hypervisor's domains and the image directory as they were.
C1_CreateExistingIsNoOp ==
    [][(pc = "create" /\ host \in defined) =>
          /\ pc' = "done"
          /\ exit_code' = 0
          /\ Outcome' = "AlreadyExists"
          /\ calls' = <<Call("lookupByName", TRUE)>>
          /\ polls' = 0
          /\ UNCHANGED <<hyper, storage>>]_vars

C1_Witness ==
    /\ Finished("create")
    /\ ~absent
    /\ Outcome = "AlreadyExists"

\* C2 as stated: whenever a create of a hostname follows a create of the same
\* hostname that found it undefined, the second one ends as AlreadyExists
\* with no call but its existence lookup.
C2_SecondCreateAlreadyExists ==
    (/\ Finished("create")
     /\ prev.cmd = "create"
     /\ prev.host = host
     /\ prev.absent)
    => (Outcome = "AlreadyExists" /\ Ops(calls) = {"lookupByName"})

\* C2 amended: whenever a create of a hostname follows a create of the same
\* hostname that found it undefined and ended as created (with or without an
\* address), the second one ends as AlreadyExists with no call but its
\* existence lookup, and the domain is still defined.
C2_SecondCreateAfterCreated ==
    (/\ Finished("create")
     /\ prev.cmd = "create"
     /\ prev.host = host
     /\ prev.absent
     /\ prev.outcome \in Created)
    => (/\ Outcome = "AlreadyExists"
        /\ Ops(calls) = {"lookupByName"}
        /\ polls = 0
        /\ host \in defined)

C2_Witness ==
    /\ Finished("create")
    /\ prev.cmd = "create"
    /\ prev.host = host
    /\ prev.absent
    /\ prev.outcome = "created_with_address"
    /\ Outcome = "AlreadyExists"

\* C3: a destroy of a hostname with no domain ends as AlreadyAbsent with
\* status 0 and issues neither the stop nor the undefine; the hostname stays
\* undefined.
C3_DestroyAbsentIsNoOp ==
    (Finished("destroy") /\ absent)
    => (/\ Outcome = "AlreadyAbsent"
        /\ Ops(calls) \cap Mutations = {}
        /\ calls = <<Call("lookupByName", FALSE)>>
        /\ host \notin defined)

C3_Witness ==
    /\ Finished("destroy")
    /\ absent
    /\ Outcome = "AlreadyAbsent"

\* C4 as stated: once qemu-img or genisoimage has exited non-zero in a
\* create, virt-install is not run and the create ends as failed.
C4_ProvisionFailureStopsCreate ==
    (cmd = "create" /\ (Failed("qemu-img") \/ Failed("genisoimage")))
    => (/\ ~Has("virt-install")
        /\ pc = "done" => Outcome = "failed")

\* C5 as stated: a create whose distribution is not in the catalog ends as
\* failed without any call: no existence lookup before the validation, no
\* qemu-img, genisoimage or virt-install.
C5_UnknownDistributionFailsFirst ==
    (Finished("create") /\ distro \notin images)
    => (Outcome = "failed" /\ calls = <<>>)

\* C6 as stated: a resolution that ends in the timeout has polled the lease
\* table max_attempt times, not fewer and not more.
C6_TimeoutAfterMaxAttemptPolls ==
    (pc = "done" /\ Logged("timeout")) => polls = max_attempt

\* C6 amended: a resolution never polls more than max_attempt + 1 times nor
\* sleeps more than max_attempt times; when no snapshot held a lease of the
\* first MAC it ends in the timeout after exactly max_attempt + 1 polls and
\* max_attempt sleeps, and returns no address.
C6_TimeoutAfterMaxAttemptPlusOnePolls ==
    /\ polls <= max_attempt + 1
    /\ sleeps <= max_attempt
    /\ (pc = "done" /\ polls > 0 /\ firstSeen = 0)
       => (/\ Logged("timeout")
           /\ polls = max_attempt + 1
           /\ sleeps = max_attempt
           /\ ipaddr = None)
    /\ (pc = "done" /\ Logged("timeout"))
       => (polls = max_attempt + 1 /\ firstSeen = 0)

C6_Witness ==
    /\ pc = "done"
    /\ Logged("timeout")
    /\ macs # <<>>
    /\ firstSeen = 0
    /\ polls = max_attempt + 1

\* C7: while the loop runs no snapshot has held a lease of the first MAC,
\* whatever else the snapshots held; the resolution returns an address
\* exactly when some snapshot held one, and then after exactly as many polls
\* as it took to see it, with the address of that lease, and the run succeeds.
C7_ReturnsAtFirstMatch ==
    /\ pc = "poll" => (firstSeen = 0 /\ polls = attempt /\ exit_code = -1)
    /\ pc = "done" => (ipaddr # None <=> firstSeen > 0)
    /\ (pc = "done" /\ firstSeen > 0)
       => (/\ polls = firstSeen
           /\ sleeps = firstSeen - 1
           /\ ipaddr = leaseIp
           /\ ~Logged("timeout")
           /\ Outcome = "created_with_address")

C7_Witness ==
    /\ pc = "done"
    /\ firstSeen = 5
    /\ polls = 5
    /\ ipaddr = leaseIp
    /\ ipaddr # None

\* the run reached get_ip_address_from_dhcp_leases: it is a create, and the
\* lookup of get_instance_macs succeeded
Resolving ==
    /\ cmd = "create"
    /\ \E i \in 2..Len(calls) : calls[i] = Call("lookupByName", TRUE)

\* C8: a resolution over an empty MAC list returns at once: it reports that
\* there is no interface, has polled and slept zero times, and has no
\* address.
C8_NoMacNoPoll ==
    (Resolving /\ macs = <<>>)
    => (/\ pc = "done"
        /\ Logged("no_mac")
        /\ polls = 0
        /\ sleeps = 0
        /\ ipaddr = None
        /\ exit_code = 0)

C8_Witness ==
    /\ Resolving
    /\ macs = <<>>
    /\ Logged("no_mac")
    /\ pc = "done"

\* C9: a create whose virt-install succeeded and whose resolution timed out
\* ends with status 0 as created without address, has logged the hint to
\* the lease command, has issued no stop and no undefine, and leaves the
\* domain defined and running.
C9_TimeoutIsNotFatal ==
    (Finished("create") /\ Succeeded("virt-install") /\ Logged("timeout"))
    => (/\ exit_code = 0
        /\ Outcome = "created_without_address"
        /\ Logged("lease_hint")
        /\ Ops(calls) \cap Mutations = {}
        /\ host \in defined
        /\ host \in active)

C9_Witness ==
    /\ Finished("create")
    /\ Succeeded("virt-install")
    /\ Logged("timeout")
    /\ Outcome = "created_without_address"

\* C10: the step that destroys a defined domain issues the stop exactly when
\* the domain was running, issues the undefine exactly once and as its last
\* call, after the stop; the domain runs no more, and an undefine that
\* succeeded has removed the domain, its disk and its seed image at once.
C10_StopThenUndefineOnce ==
    [][(pc = "destroy" /\ host \in defined) =>
          LET n == Len(calls')
              stops == {i \in 1..n : calls'[i].op = "dom.destroy"}
              undefs == {i \in 1..n : calls'[i].op = "undefine"}
          IN  /\ (stops # {}) <=> (host \in active)
              /\ Cardinality(stops) <= 1
              /\ undefs = {n}
              /\ \A i \in stops : i < n
              /\ host \notin active'
              /\ calls'[n].ok =>
                    (host \notin defined' /\ host \notin disks'
                       /\ host \notin isos')
              /\ ~calls'[n].ok => UNCHANGED <<defined, storage>>]_vars

C10_Witness ==
    /\ Finished("destroy")
    /\ Succeeded("dom.destroy")
    /\ Succeeded("undefine")
    /\ host \notin defined

\* C11 as stated: a destroy whose undefine command exited non-zero ends as
\* failed, with a non-zero status, and does not report the instance as
\* destroyed.
C11_UndefineFailureIsFatal ==
    (Finished("destroy") /\ Failed("undefine"))
    => (/\ exit_code # 0
        /\ Outcome = "failed"
        /\ ~Logged("destroyed"))

\* C12 as stated: the connection is open whenever a command runs, and it is
\* closed when the run has ended, on whatever path it ended.
C12_ConnectionClosedOnEveryExit ==
    /\ pc \notin {"idle", "done"} => conn = "open"
    /\ pc = "done" => conn = "closed"

\* the place of virt-install among the calls of the run, or 0
InstallAt ==
    IF Has("virt-install")
    THEN CHOOSE i \in 1..Len(calls) : calls[i].op = "virt-install"
    ELSE 0

\* C14 as stated: after a virt-install that exited non-zero the create
\* attempts no domain lookup and no lease poll, and ends as failed.
C14_NoResolutionAfterFailedInstall ==
    (cmd = "create" /\ Failed("virt-install"))
    => (/\ \A i \in 1..Len(calls) : i > InstallAt => calls[i].op # "lookupByName"
        /\ polls = 0
        /\ pc = "done" => Outcome = "failed")

\* C13: a fetch of a distribution of the catalog runs the download exactly
\* when the test of its base image file found no file; when the file was
\* there it ends with status 0 after that test alone, and the file is still
\* there.
C13_FetchDownloadsOnlyWhenAbsent ==
    (Finished("fetch") /\ distro \in images)
    => (/\ calls[1].op = "is_file"
        /\ Has("curl") <=> ~calls[1].ok
        /\ calls[1].ok =>
             (/\ calls = <<Call("is_file", TRUE)>>
              /\ exit_code = 0
              /\ Outcome = "fetched"
              /\ distro \in base))

C13_Witness ==
    /\ Finished("fetch")
    /\ distro \in images
    /\ calls = <<Call("is_file", TRUE)>>
    /\ Outcome = "fetched"

\* C19: a fetch of a distribution that is not in the catalog is one step
\* that logs the list of the identifiers and nothing else, ends the process
\* with status 1, makes no call (no download, no query of a domain) and
\* leaves the domains and the image directory as they were.
C19_FetchUnknownDistribution ==
    [][(pc = "fetch" /\ distro \notin images) =>
          /\ pc' = "done"
          /\ exit_code' = 1
          /\ log' = <<"available_distributions">>
          /\ calls' = <<>>
          /\ UNCHANGED <<hyper, storage>>]_vars

C19_Witness ==
    /\ Finished("fetch")
    /\ distro \notin images
    /\ Logged("available_distributions")
    /\ exit_code = 1

\* the existence check of this run failed for another reason than a missing
\* domain
LookupBroke ==
    Ops(calls) \cap {"lookupByName/libvirtError", "lookupByName/Exception"} # {}

\* C15 as stated: a run whose existence check failed for another reason than
\* a missing domain takes the domain neither for absent nor for present: a
\* create does not go on to provisioning, a destroy does not report the
\* domain as absent, and the run ends with a non-zero status.
C15_LookupFailurePropagates ==
    LookupBroke
    => (/\ ~Logged("creating")
        /\ ~Logged("not_exists")
        /\ Ops(calls) \cap {"qemu-img", "genisoimage", "virt-install"} = {}
        /\ pc = "done"
        /\ exit_code # 0)

\* C16: virt-install is only ever run by a create, once, after an existence
\* lookup of the hostname that found no domain, and while the hostname has
\* no domain; a virt-install that succeeded has given a domain to a hostname
\* that had none when the run started, so no hostname ever gets a second one.
C16_DefineOnlyWhenAbsent ==
    /\ pc = "_create_instance" => host \notin defined
    /\ Has("virt-install")
       => (/\ cmd = "create"
           /\ calls[1] = Call("lookupByName", FALSE)
           /\ InstallAt > 1
           /\ Cardinality({i \in 1..Len(calls) : calls[i].op = "virt-install"}) = 1
           /\ absent)
    /\ Succeeded("virt-install") => (absent /\ host \in defined)

C16_Witness ==
    /\ Finished("create")
    /\ Succeeded("virt-install")
    /\ prev.cmd = "destroy"
    /\ prev.host = host
    /\ prev.outcome = "destroyed"
    /\ host \in defined

\* C17: the loop matches the leases against the first MAC of the interface
\* list; an address it returns is the address of a lease of that MAC in the
\* snapshot of its last poll, and when no snapshot held a lease of that MAC
\* it returns none, whatever leases of the later MACs the snapshots held.
C17_OnlyFirstMacMatched ==
    /\ pc = "poll" => mac = macs[1]
    /\ (pc = "done" /\ ipaddr # None)
       => (mac = macs[1] /\ firstSeen = polls /\ ipaddr = leaseIp)
    /\ (laterOnly /\ firstSeen = 0) => ipaddr = None
    /\ (pc = "done" /\ laterOnly /\ firstSeen = 0) => Logged("timeout")

C17_Witness ==
    /\ pc = "done"
    /\ Len(macs) = 2
    /\ laterOnly
    /\ firstSeen = 0
    /\ ipaddr = None
    /\ Logged("timeout")

\* the calls of a create in which every step succeeded, in their order
CreateSteps ==
    <<Call("lookupByName", FALSE), Call("qemu-img", TRUE),
      Call("genisoimage", TRUE), Call("virt-install", TRUE),
      Call("lookupByName", TRUE)>>

\* C18: a create of a hostname without a domain in which the three commands
\* exited zero and the resolution found an address has made its calls in the
\* order existence lookup, qemu-img, genisoimage, virt-install, lookup of the
\* resolution, each once, then polled; it ends as created with the address
\* of the first lease of the first MAC in the snapshot of its last poll, and
\* the domain is defined and running on its disk and seed image.
C18_CreatePipelineOrder ==
    (/\ Finished("create")
     /\ absent
     /\ Succeeded("qemu-img")
     /\ Succeeded("genisoimage")
     /\ Succeeded("virt-install")
     /\ ipaddr # None)
    => (/\ calls = CreateSteps
        /\ log = <<"check", "creating", "disk_created", "cloud_init",
                   "iso_created", "waiting", "iface_up">>
        /\ polls >= 1
        /\ firstSeen = polls
        /\ ipaddr = leaseIp
        /\ Outcome = "created_with_address"
        /\ exit_code = 0
        /\ host \in defined /\ host \in active
        /\ host \in disks /\ host \in isos)

C18_Witness ==
    /\ Finished("create")
    /\ absent
    /\ calls = CreateSteps
    /\ Outcome = "created_with_address"
    /\ ipaddr = "192.168.122.50"
    /\ host = "vm1"
    /\ distro = "fedora31"

====
